---- MODULE Spec2Model ----
(***************************************************************************)
(* Model of chess_tensor.py: the move <-> action-index codec               *)
(* (actionToTensor, actionsToTensor, tensorToAction) and the ChessTensor   *)
(* position encoder (start_board, move_piece, get_representation,          *)
(* get_initial_state, get_next_state).                                     *)
(*                                                                         *)
(* Squares are numbered as in the chess library: square = rank*8 + file,   *)
(* a1 = 0, h8 = 63.  A move is [from_square, to_square, promotion] with    *)
(* promotion 0 for None and 2..5 for knight, bishop, rook, queen.          *)
(* Strings are sequences of one-character strings.                         *)
(***************************************************************************)
EXTENDS Integers, Sequences, FiniteSets, TLC

VARIABLES
    \* the codec: the call made last, its arguments and its results
    pc, color, valid_moves, prob, actionTensor, queen_promotion, chess_moves, raised,
    \* a ChessTensor instance: self.board, self.representation,
    \* self.black_representation; the reference get_initial_state handed out;
    \* what the last method call returned or raised
    board, representation, black_representation, state, ret

codecVars == <<pc, color, valid_moves, prob, actionTensor, queen_promotion,
               chess_moves, raised>>

tensorVars == <<board, representation, black_representation, state, ret>>

vars == <<pc, color, valid_moves, prob, actionTensor, queen_promotion,
          chess_moves, raised,
          board, representation, black_representation, state, ret>>

----------------------------------------------------------------------------
(* Bounds of the enumerated inputs *)

\* longest move list handed to actionsToTensor
MaxMoves == 2
\* number of squares of SampleSquares the moves of a list may leave from
MaxPieces == 2
\* longest game played through move_piece
MaxPly == 9
\* deepest ply at which the search interface is exercised
MaxSearchPly == 3

----------------------------------------------------------------------------
(* The chess library's move type *)

Squares == 0..63
SampleSquares == <<52, 12, 0, 63, 27>>
PAWN == 1
KNIGHT == 2
BISHOP == 3
ROOK == 4
QUEEN == 5
KING == 6
WHITE == TRUE
BLACK == FALSE

FILE_NAMES == <<"a", "b", "c", "d", "e", "f", "g", "h">>
RANK_NAMES == <<"1", "2", "3", "4", "5", "6", "7", "8">>
PIECE_SYMBOLS == <<"p", "n", "b", "r", "q", "k">>

square_file(sq) == sq % 8
square_rank(sq) == sq \div 8

Abs(x) == IF x < 0 THEN -x ELSE x
Max(a, b) == IF a >= b THEN a ELSE b
Min(a, b) == IF a <= b THEN a ELSE b

Move(f, t, p) == [from_square |-> f, to_square |-> t, promotion |-> p]

\* chess.Move.uci(): from-square name, to-square name, promotion symbol
uci(m) ==
    <<FILE_NAMES[square_file(m.from_square) + 1],
      RANK_NAMES[square_rank(m.from_square) + 1],
      FILE_NAMES[square_file(m.to_square) + 1],
      RANK_NAMES[square_rank(m.to_square) + 1]>>
    \o (IF m.promotion = 0 THEN <<>> ELSE <<PIECE_SYMBOLS[m.promotion]>>)

IndexOf(s, ch) == CHOOSE i \in 1..Len(s) : s[i] = ch

\* chess.Move.from_uci() on a 4- or 5-character string
from_uci(s) ==
    LET f == (IndexOf(RANK_NAMES, s[2]) - 1) * 8 + (IndexOf(FILE_NAMES, s[1]) - 1)
        t == (IndexOf(RANK_NAMES, s[4]) - 1) * 8 + (IndexOf(FILE_NAMES, s[3]) - 1)
        p == IF Len(s) = 5 THEN IndexOf(PIECE_SYMBOLS, s[5]) ELSE 0
    IN  IF f = t
        THEN [raised |-> "InvalidMoveError", move |-> Move(f, t, p)]
        ELSE [raised |-> "", move |-> Move(f, t, p)]

----------------------------------------------------------------------------
(* Python sequence indexing and slicing *)

Reverse(s) == [i \in 1..Len(s) |-> s[Len(s) + 1 - i]]

\* s[i] of a Python string: a negative index counts from the end, an index
\* outside [-len, len) raises IndexError
InRange(s, i) == i >= -Len(s) /\ i < Len(s)
GetItem(s, i) == IF i >= 0 THEN s[i + 1] ELSE s[Len(s) + i + 1]

----------------------------------------------------------------------------
(* Flat tensors of 8*8*73 weights, kept as the function from the indices   *)
(* of the non-zero entries to their values                                 *)

ACTION_SIZE == 8 * 8 * 73
EmptyTensor == [i \in {} |-> 0]
OneHot(i, v) == IF v = 0 THEN EmptyTensor ELSE [j \in {i} |-> v]
At(t, i) == IF i \in DOMAIN t THEN t[i] ELSE 0
TensorAdd(a, b) ==
    LET s == [i \in (DOMAIN a) \cup (DOMAIN b) |-> At(a, i) + At(b, i)]
    IN  [i \in {j \in DOMAIN s : s[j] # 0} |-> s[i]]

RECURSIVE SortedSeq(_)
SortedSeq(S) ==
    IF S = {} THEN <<>>
    ELSE LET lo == CHOOSE x \in S : \A y \in S : x <= y
         IN  <<lo>> \o SortedSeq(S \ {lo})

\* torch.Tensor.nonzero(): the indices of the non-zero entries, ascending
nonzero(t) == SortedSeq(DOMAIN t)

----------------------------------------------------------------------------
(* actionToTensor *)

dir_dict ==
    (<<0, -1>> :> 0) @@ (<<1, -1>> :> 1) @@ (<<1, 0>> :> 2) @@ (<<1, 1>> :> 3) @@
    (<<0, 1>> :> 4) @@ (<<-1, 1>> :> 5) @@ (<<-1, 0>> :> 6) @@ (<<-1, -1>> :> 7)

knight_moves_dict ==
    (<<1, -2>> :> 0) @@ (<<2, -1>> :> 1) @@ (<<2, 1>> :> 2) @@ (<<1, 2>> :> 3) @@
    (<<-1, 2>> :> 4) @@ (<<-2, 1>> :> 5) @@ (<<-2, -1>> :> 6) @@ (<<-1, -2>> :> 7)

check_polarity(val) == IF val > 0 THEN 1 ELSE IF val < 0 THEN -1 ELSE 0

\* MoverFrame with black's columns left unmirrored
MoverFrameUnmirrored(move, c) ==
    IF c = WHITE
    THEN [row   |-> 7 - (move.from_square \div 8),
          col   |-> move.from_square % 8,
          toRow |-> 7 - (move.to_square \div 8),
          toCol |-> move.to_square % 8]
    ELSE [row   |-> move.from_square \div 8,
          col   |-> move.from_square % 8,
          toRow |-> move.to_square \div 8,
          toCol |-> move.to_square % 8]

\* the from- and to-square in the mover's frame
MoverFrame(move, c) ==
    IF c = WHITE
    THEN [row   |-> 7 - (move.from_square \div 8),
          col   |-> move.from_square % 8,
          toRow |-> 7 - (move.to_square \div 8),
          toCol |-> move.to_square % 8]
    ELSE [row   |-> move.from_square \div 8,
          col   |-> 7 - (move.from_square % 8),
          toRow |-> move.to_square \div 8,
          toCol |-> 7 - (move.to_square % 8)]

IsQueenMove(f) ==
    f.toCol = f.col \/ f.toRow = f.row \/ Abs(f.toRow - f.row) = Abs(f.toCol - f.col)

\* UnderpromotionPlane without the promotion piece
UnderpromotionPlaneNoPiece(move, f) ==
    64 + (IF f.toCol > f.col THEN 1
          ELSE IF f.toCol < f.col THEN 2
          ELSE 0)

UnderpromotionPlane(move, f) ==
    LET last == uci(move)[Len(uci(move))]
        i    == (IndexOf(<<"n", "b", "r">>, last) - 1) * 3
    IN  64 + (IF f.toCol > f.col THEN i + 1
              ELSE IF f.toCol < f.col THEN i + 2
              ELSE i)

QueenPlane(f) ==
    LET squares   == Max(Abs(f.toRow - f.row), Abs(f.toCol - f.col))
        direction == <<check_polarity(f.toCol - f.col), check_polarity(f.toRow - f.row)>>
    IN  dir_dict[direction] * 7 + (squares - 1)

KnightPlane(f) == 56 + knight_moves_dict[<<f.toCol - f.col, f.toRow - f.row>>]

\* the index actionToTensor writes the weight to
ActionIndex(move, c) ==
    LET f == MoverFrame(move, c)
        plane == IF IsQueenMove(f)
                 THEN IF uci(move)[Len(uci(move))] \in {"n", "b", "r"}
                      THEN UnderpromotionPlane(move, f)
                      ELSE QueenPlane(f)
                 ELSE KnightPlane(f)
    IN  plane * 64 + f.row * 8 + f.col

actionToTensor(move, c, p) == OneHot(ActionIndex(move, c), p)

----------------------------------------------------------------------------
(* actionsToTensor *)

RECURSIVE SumTensors(_, _, _)
SumTensors(moves, c, p) ==
    IF moves = <<>> THEN EmptyTensor
    ELSE TensorAdd(SumTensors(SubSeq(moves, 1, Len(moves) - 1), c, p),
                   actionToTensor(moves[Len(moves)], c, p))

\* valid_moves is a list (dictionary = FALSE, every weight 1) or a mapping
\* from moves to weights (dictionary = TRUE, here all of weight p)
actionsToTensor(moves, dictionary, p, c) ==
    [actionTensor    |-> SumTensors(moves, c, IF dictionary THEN p ELSE 1),
     queen_promotion |-> {uci(moves[i]) : i \in {j \in 1..Len(moves) : moves[j].promotion = 5}}]

----------------------------------------------------------------------------
(* tensorToAction *)

dir_list ==
    <<<<0, -1>>, <<1, -1>>, <<1, 0>>, <<1, 1>>, <<0, 1>>, <<-1, 1>>, <<-1, 0>>, <<-1, -1>>>>

knight_moves_list ==
    <<<<1, -2>>, <<2, -1>>, <<2, 1>>, <<1, 2>>, <<-1, 2>>, <<-2, 1>>, <<-2, -1>>, <<-1, -2>>>>

\* lettering that is not reversed for black
letteringUnreversed(c) == FILE_NAMES

lettering(c) == IF c = WHITE THEN FILE_NAMES ELSE Reverse(FILE_NAMES)
numbering(c) == IF c = WHITE THEN Reverse(RANK_NAMES) ELSE RANK_NAMES

\* row, col, toRow, toCol and the underpromotion letter of one index
Destination(index) ==
    LET plane == index \div 64
        row   == (index % 64) \div 8
        col   == (index % 64) % 8
    IN  IF plane < 56
        THEN LET direction == plane \div 7
                 squares   == 1 + (plane % 7)
             IN  [row |-> row, col |-> col, queen |-> TRUE, promotion |-> <<>>,
                  toCol |-> col + dir_list[direction + 1][1] * squares,
                  toRow |-> row + dir_list[direction + 1][2] * squares]
        ELSE IF plane < 64
        THEN LET direction == plane - 56
             IN  [row |-> row, col |-> col, queen |-> FALSE, promotion |-> <<>>,
                  toCol |-> col + knight_moves_list[direction + 1][1],
                  toRow |-> row + knight_moves_list[direction + 1][2]]
        ELSE LET p == plane - 64
             IN  [row |-> row, col |-> col, queen |-> FALSE,
                  promotion |-> <<GetItem(<<"n", "b", "r">>, p \div 3)>>,
                  toCol |-> IF p % 3 = 1 THEN col + 1
                            ELSE IF p % 3 = 2 THEN col - 1
                            ELSE col,
                  toRow |-> row - 1]

\* one iteration of the loop of tensorToAction
DecodeIndex(index, c, qp) ==
    LET d == Destination(index)
    IN  IF ~(InRange(lettering(c), d.toCol) /\ InRange(numbering(c), d.toRow))
        THEN [raised |-> "IndexError", move |-> Move(0, 0, 0)]
        ELSE LET coords == <<GetItem(lettering(c), d.col), GetItem(numbering(c), d.row),
                             GetItem(lettering(c), d.toCol), GetItem(numbering(c), d.toRow)>>
                 promotion == IF d.queen /\ (coords \o <<"q">>) \in qp
                              THEN <<"q">>
                              ELSE d.promotion
             IN  from_uci(coords \o promotion)

tensorToAction(moves, c, qp) ==
    LET nz      == nonzero(moves)
        decoded == [i \in 1..Len(nz) |-> DecodeIndex(nz[i], c, qp)]
        failed  == {i \in 1..Len(nz) : decoded[i].raised # ""}
    IN  IF failed # {}
        THEN [raised |-> decoded[CHOOSE i \in failed : \A j \in failed : i <= j].raised,
              chess_moves |-> <<>>]
        ELSE [raised |-> "", chess_moves |-> [i \in 1..Len(nz) |-> decoded[i].move]]

----------------------------------------------------------------------------
(* Inputs of the codec: the moves the rules engine can report as legal     *)

\* a queen-like or knight-shaped displacement
QueenShape(f, t) ==
    /\ f # t
    /\ \/ square_file(f) = square_file(t)
       \/ square_rank(f) = square_rank(t)
       \/ Abs(square_file(f) - square_file(t)) = Abs(square_rank(f) - square_rank(t))

KnightShape(f, t) ==
    {Abs(square_file(f) - square_file(t)), Abs(square_rank(f) - square_rank(t))} = {1, 2}

\* a pawn of colour c stepping from its seventh rank onto its eighth
PromotionShape(f, t, c) ==
    /\ Abs(square_file(f) - square_file(t)) <= 1
    /\ IF c = WHITE
       THEN square_rank(f) = 6 /\ square_rank(t) = 7
       ELSE square_rank(f) = 1 /\ square_rank(t) = 0

ShapedMoves(c) ==
    {Move(f, t, 0) : <<f, t>> \in {x \in Squares \X Squares :
                                      QueenShape(x[1], x[2]) \/ KnightShape(x[1], x[2])}}
    \cup
    {Move(x[1], x[2], x[3]) : x \in {y \in Squares \X Squares \X {KNIGHT, BISHOP, ROOK, QUEEN} :
                                        PromotionShape(y[1], y[2], c)}}

WhiteMoves == ShapedMoves(WHITE)
BlackMoves == ShapedMoves(BLACK)
MovesOf(c) == IF c = WHITE THEN WhiteMoves ELSE BlackMoves

\* the moves leaving the first MaxPieces sample squares
ListSquares == {SampleSquares[i] : i \in 1..Min(MaxPieces, Len(SampleSquares))}
WhiteListMoves == {m \in WhiteMoves : m.from_square \in ListSquares}
BlackListMoves == {m \in BlackMoves : m.from_square \in ListSquares}
ListMovesOf(c) == IF c = WHITE THEN WhiteListMoves ELSE BlackListMoves

MoveKey(m) == (m.from_square * 64 + m.to_square) * 8 + m.promotion

\* the move lists of at most MaxMoves moves, in ascending order of MoveKey;
\* a mapping has distinct keys, a list may repeat a move
RECURSIVE MoveLists(_, _, _)
MoveLists(U, n, strict) ==
    IF n = 0 THEN {<<>>}
    ELSE LET shorter == MoveLists(U, n - 1, strict)
         IN  shorter \cup
             {Append(s, m) : <<s, m>> \in
                 {x \in shorter \X U :
                     /\ Len(x[1]) = n - 1
                     /\ \/ x[1] = <<>>
                        \/ MoveKey(x[1][Len(x[1])]) < MoveKey(x[2])
                        \/ ~strict /\ x[1][Len(x[1])] = x[2]}}

WhiteLists == MoveLists(WhiteListMoves, MaxMoves, FALSE)
BlackLists == MoveLists(BlackListMoves, MaxMoves, FALSE)
WhiteDicts == MoveLists(WhiteListMoves, MaxMoves, TRUE)
BlackDicts == MoveLists(BlackListMoves, MaxMoves, TRUE)
\* the inputs of actionsToTensor: every single shaped move of the board, and
\* the lists of the moves leaving the sample squares
ListsOf(c, dictionary) ==
    {<<m>> : m \in MovesOf(c)}
    \cup (IF c = WHITE THEN (IF dictionary THEN WhiteDicts ELSE WhiteLists)
          ELSE (IF dictionary THEN BlackDicts ELSE BlackLists))

Probs == {1, 2}

----------------------------------------------------------------------------
(* The codec as a state machine: each action is one call *)

InitCodec ==
    /\ pc = "start"
    /\ color = WHITE
    /\ valid_moves = <<>>
    /\ prob = 1
    /\ actionTensor = EmptyTensor
    /\ queen_promotion = {}
    /\ chess_moves = <<>>
    /\ raised = ""
    \* no ChessTensor instance is constructed
    /\ board = <<>>
    /\ representation = <<>>
    /\ black_representation = <<>>
    /\ state = "none"
    /\ ret = <<>>

\* at = actionToTensor(move, color, prob)
ActionToTensor ==
    /\ pc = "start"
    /\ \E c \in BOOLEAN, p \in Probs :
        \E move \in MovesOf(c) :
            /\ pc' = "actionToTensor"
            /\ color' = c
            /\ valid_moves' = <<move>>
            /\ prob' = p
            /\ actionTensor' = actionToTensor(move, c, p)
            /\ queen_promotion' = {}
            /\ chess_moves' = <<>>
            /\ raised' = ""
    /\ UNCHANGED tensorVars

\* actionTensor, queen_promotion = actionsToTensor(valid_moves, color)
ActionsToTensor ==
    /\ pc = "start"
    /\ \E c \in BOOLEAN, dictionary \in BOOLEAN :
        \E moves \in ListsOf(c, dictionary) :
            LET p == IF dictionary THEN 2 ELSE 1
                r == actionsToTensor(moves, dictionary, p, c)
            IN  /\ pc' = "actionsToTensor"
                /\ color' = c
                /\ valid_moves' = moves
                /\ prob' = p
                /\ actionTensor' = r.actionTensor
                /\ queen_promotion' = r.queen_promotion
                /\ chess_moves' = <<>>
                /\ raised' = ""
    /\ UNCHANGED tensorVars

\* chess_moves = tensorToAction(actionTensor, color, queen_promotion) on the
\* mask and the side set actionsToTensor returned
TensorToActionMask ==
    /\ pc = "actionsToTensor"
    /\ LET r == tensorToAction(actionTensor, color, queen_promotion)
       IN  /\ pc' = "tensorToAction"
           /\ chess_moves' = r.chess_moves
           /\ raised' = r.raised
    /\ UNCHANGED <<color, valid_moves, prob, actionTensor, queen_promotion>>
    /\ UNCHANGED tensorVars

\* chess_moves = tensorToAction(at, color) on the vector of one move, with
\* the default (empty) queen_promotion
TensorToActionMove ==
    /\ pc = "actionToTensor"
    /\ LET r == tensorToAction(actionTensor, color, {})
       IN  /\ pc' = "decodeMove"
           /\ chess_moves' = r.chess_moves
           /\ raised' = r.raised
    /\ UNCHANGED <<color, valid_moves, prob, actionTensor, queen_promotion>>
    /\ UNCHANGED tensorVars

\* chess_moves = tensorToAction(moves, color) on a vector with one non-zero
\* entry, with the default (empty) queen_promotion
TensorToActionIndex ==
    /\ pc = "start"
    /\ \E index \in 0..(ACTION_SIZE - 1), c \in BOOLEAN :
        LET r == tensorToAction(OneHot(index, 1), c, {})
        IN  /\ pc' = "decodeIndex"
            /\ color' = c
            /\ valid_moves' = <<>>
            /\ prob' = 1
            /\ actionTensor' = OneHot(index, 1)
            /\ queen_promotion' = {}
            /\ chess_moves' = r.chess_moves
            /\ raised' = r.raised
    /\ UNCHANGED tensorVars

NextCodec ==
    \/ ActionToTensor
    \/ ActionsToTensor
    \/ TensorToActionMask
    \/ TensorToActionMove
    \/ TensorToActionIndex

SpecCodec == InitCodec /\ [][NextCodec]_vars

----------------------------------------------------------------------------
(* The rules engine (chess.Board), reduced to the moves of Repertoire:     *)
(* none of them captures, castles, promotes or gives check                 *)

NoPiece == [piece_type |-> 0, color |-> WHITE]
Piece(pt, c) == [piece_type |-> pt, color |-> c]

BackRankPieces == <<ROOK, KNIGHT, BISHOP, QUEEN, KING, BISHOP, KNIGHT, ROOK>>

StartPieces ==
    [sq \in Squares |->
        IF square_rank(sq) = 0 THEN Piece(BackRankPieces[square_file(sq) + 1], WHITE)
        ELSE IF square_rank(sq) = 1 THEN Piece(PAWN, WHITE)
        ELSE IF square_rank(sq) = 6 THEN Piece(PAWN, BLACK)
        ELSE IF square_rank(sq) = 7 THEN Piece(BackRankPieces[square_file(sq) + 1], BLACK)
        ELSE NoPiece]

\* chess.Board(): the starting position
StartBoardValue ==
    [pieces          |-> StartPieces,
     turn            |-> WHITE,
     castling_rights |-> {0, 7, 56, 63},
     halfmove_clock  |-> 0,
     move_stack      |-> <<>>,
     stack           |-> <<>>]

\* Ng1f3, Nf3g1, e2e4, Ke1e2 and Ng8f6, Nf6g8, e7e5, Rh8g8
Repertoire ==
    {Move(6, 21, 0), Move(21, 6, 0), Move(12, 28, 0), Move(4, 12, 0),
     Move(62, 45, 0), Move(45, 62, 0), Move(52, 36, 0), Move(63, 62, 0)}

BackRank(c) == {sq \in Squares : square_rank(sq) = (IF c = WHITE THEN 0 ELSE 7)}
KingHome(c) == IF c = WHITE THEN 4 ELSE 60

\* the state Board.push saves on its stack
BoardState(b) ==
    [pieces |-> b.pieces, turn |-> b.turn, castling_rights |-> b.castling_rights,
     halfmove_clock |-> b.halfmove_clock]

\* Board.push(move)
push(b, move) ==
    LET piece   == b.pieces[move.from_square]
        zeroing == piece.piece_type = PAWN \/ b.pieces[move.to_square].piece_type # 0
        touched == b.castling_rights \ {move.from_square, move.to_square}
    IN  [pieces          |-> [b.pieces EXCEPT ![move.from_square] = NoPiece,
                                              ![move.to_square] = piece],
         turn            |-> ~b.turn,
         castling_rights |-> IF piece.piece_type = KING
                             THEN touched \ BackRank(piece.color)
                             ELSE touched,
         halfmove_clock  |-> IF zeroing THEN 0 ELSE b.halfmove_clock + 1,
         move_stack      |-> Append(b.move_stack, move),
         stack           |-> Append(b.stack, BoardState(b))]

\* the squares strictly between two squares of one rank or file
Between(f, t) ==
    {sq \in Squares :
        \/ /\ square_rank(f) = square_rank(t) /\ square_rank(sq) = square_rank(f)
           /\ Min(f, t) < sq /\ sq < Max(f, t)
        \/ /\ square_file(f) = square_file(t) /\ square_file(sq) = square_file(f)
           /\ Min(f, t) < sq /\ sq < Max(f, t)}

\* move in Board.legal_moves, for the non-capturing moves of Repertoire
IsLegal(b, move) ==
    LET piece == b.pieces[move.from_square]
        f     == move.from_square
        t     == move.to_square
        up    == IF piece.color = WHITE THEN 8 ELSE -8
    IN  /\ piece.piece_type # 0
        /\ piece.color = b.turn
        /\ b.pieces[t].piece_type = 0
        /\ move.promotion = 0
        /\ CASE piece.piece_type = KNIGHT -> KnightShape(f, t)
             [] piece.piece_type = KING ->
                    Max(Abs(square_file(f) - square_file(t)),
                        Abs(square_rank(f) - square_rank(t))) = 1
             [] piece.piece_type = ROOK ->
                    /\ square_file(f) = square_file(t) \/ square_rank(f) = square_rank(t)
                    /\ \A sq \in Between(f, t) : b.pieces[sq].piece_type = 0
             [] piece.piece_type = PAWN ->
                    \/ t = f + up
                    \/ /\ t = f + 2 * up
                       /\ square_rank(f) = (IF piece.color = WHITE THEN 1 ELSE 6)
                       /\ b.pieces[f + up].piece_type = 0
             [] OTHER -> FALSE

legal_moves(b) == {move \in Repertoire : IsLegal(b, move)}

\* Board.clean_castling_rights(), one colour's share
clean_castling_rights(b, c) ==
    IF b.pieces[KingHome(c)] = Piece(KING, c)
    THEN {sq \in b.castling_rights \cap BackRank(c) : b.pieces[sq] = Piece(ROOK, c)}
    ELSE {}

has_kingside_castling_rights(b, c) == \E sq \in clean_castling_rights(b, c) : sq > KingHome(c)
has_queenside_castling_rights(b, c) == \E sq \in clean_castling_rights(b, c) : sq < KingHome(c)

\* the key under which the engine counts a position as repeated
PositionKey(bs) ==
    <<bs.pieces, bs.turn,
      clean_castling_rights(bs, WHITE) \cup clean_castling_rights(bs, BLACK)>>

\* Board.is_repetition(count): the position has occurred count times
is_repetition(b, count) ==
    Cardinality({i \in 1..Len(b.stack) : PositionKey(b.stack[i]) = PositionKey(b)}) + 1 >= count

----------------------------------------------------------------------------
(* Boolean tensors [channels, 8, 8]: a sequence of planes, each a function *)
(* from the cell row*8 + col to 0 or 1                                     *)

Cells == 0..63
M == 14
T == 8
L == 7

\* torch.ones / torch.zeros (1, 8, 8)
ones == [cell \in Cells |-> 1]
zeros == [cell \in Cells |-> 0]
Zeros(n) == [i \in 1..n |-> zeros]

\* torch.tensor([v], dtype=torch.bool).reshape(1, 1, 1).expand(1, 8, 8)
BoolPlane(v) == [cell \in Cells |-> IF v # 0 THEN 1 ELSE 0]

\* t[a:b] with 0 <= a <= b <= len
Slice(t, a, b) == SubSeq(t, a + 1, b)

\* torch.flip(t, [1]) reverses the rows, torch.flip(t, [2]) the columns
flip(t, dim) ==
    [ch \in 1..Len(t) |->
        [cell \in Cells |->
            IF dim = 1 THEN t[ch][(7 - (cell \div 8)) * 8 + (cell % 8)]
            ELSE t[ch][(cell \div 8) * 8 + (7 - (cell % 8))]]]

\* ChessTensor.__board_to_tensor
order(piece_type) == piece_type - 1

board_to_tensor(b) ==
    [ch \in 1..12 |->
        [square \in Cells |->
            LET piece == b.pieces[square]
            IN  IF piece.piece_type # 0
                   /\ order(piece.piece_type) + (IF piece.color = BLACK THEN 6 ELSE 0) = ch - 1
                THEN 1 ELSE 0]]

----------------------------------------------------------------------------
(* ChessTensor *)

\* start_board(chess960=False); a chess960 game differs only in the back
\* rank the engine sets up
start_board ==
    LET b                      == StartBoardValue
        board_tensor           == board_to_tensor(b)
        repetition_tensor      == Zeros(2)
        current_representation == board_tensor \o repetition_tensor
        white                  == <<ones>>
        black                  == <<zeros>>
        total_moves            == <<zeros>>
        castling               == <<ones, ones, ones, ones>>
        no_progress            == <<zeros>>
    IN  [board |-> b,
         representation |->
             current_representation \o Zeros(M * (T - 1))
                 \o white \o total_moves \o castling \o no_progress,
         black_representation |->
             Slice(current_representation, 6, 12) \o Slice(current_representation, 0, 6)
                 \o repetition_tensor \o Zeros(M * (T - 1))
                 \o black \o total_moves \o castling \o no_progress]

\* move_piece, lines 97-108: the frame of the board
current_tensor(b) ==
    board_to_tensor(b)
        \o <<IF is_repetition(b, 2) THEN ones ELSE zeros>>
        \o <<IF is_repetition(b, 3) THEN ones ELSE zeros>>

Flag(cond) == IF cond THEN ones ELSE zeros

\* move_piece, lines 110-121: the meta planes of the two tensors
L_tensor(b) ==
    <<ones,
      BoolPlane(Len(b.move_stack)),
      Flag(has_kingside_castling_rights(b, WHITE)),
      Flag(has_queenside_castling_rights(b, WHITE)),
      Flag(has_kingside_castling_rights(b, BLACK)),
      Flag(has_queenside_castling_rights(b, BLACK)),
      BoolPlane(b.halfmove_clock)>>

L_tensor_black(b) ==
    <<zeros,
      BoolPlane(Len(b.move_stack)),
      Flag(has_kingside_castling_rights(b, BLACK)),
      Flag(has_queenside_castling_rights(b, BLACK)),
      Flag(has_kingside_castling_rights(b, WHITE)),
      Flag(has_queenside_castling_rights(b, WHITE)),
      BoolPlane(b.halfmove_clock)>>

\* RemoveLast dropping only the oldest frame: t[:-self.M]
RemoveLastFrameOnly(t) == Slice(t, 0, Len(t) - M)

\* move_piece, lines 123-125: t[:-self.M - self.L]
RemoveLast(t) == Slice(t, 0, Len(t) - (M + L))

\* move_piece that pushes the move before it validates it
move_piece_push_first(self, move) ==
    LET b   == push(self.board, move)
        cur == current_tensor(b)
    IN  IF move \notin legal_moves(self.board)
        THEN [board |-> b,
              representation |-> self.representation,
              black_representation |-> self.black_representation,
              raised |-> "ValueError"]
        ELSE [board |-> b,
              representation |->
                  cur \o RemoveLast(self.representation) \o L_tensor(b),
              black_representation |->
                  Slice(cur, 6, 12) \o Slice(cur, 0, 6) \o Slice(cur, 12, Len(cur))
                      \o RemoveLast(self.black_representation) \o L_tensor_black(b),
              raised |-> ""]

\* move_piece(move) on the instance self
move_piece(self, move) ==
    IF move \notin legal_moves(self.board)
    THEN [board |-> self.board,
          representation |-> self.representation,
          black_representation |-> self.black_representation,
          raised |-> "ValueError"]
    ELSE LET b   == push(self.board, move)
             cur == current_tensor(b)
         IN  [board |-> b,
              representation |->
                  cur \o RemoveLast(self.representation) \o L_tensor(b),
              black_representation |->
                  Slice(cur, 6, 12) \o Slice(cur, 0, 6) \o Slice(cur, 12, Len(cur))
                      \o RemoveLast(self.black_representation) \o L_tensor_black(b),
              raised |-> ""]

\* get_representation that always returns the white tensor
get_representation_white(self) == flip(self.representation, 1)

\* get_representation()
get_representation(self) ==
    IF self.board.turn
    THEN flip(self.representation, 1)
    ELSE flip(self.black_representation, 2)

\* get_next_state(state, action) on the board itself
get_next_state(b, action) == push(b, action)

Self == [board |-> board, representation |-> representation,
         black_representation |-> black_representation]

NoReturn == [raised |-> "", value |-> <<>>]

\* ChessTensor(): __init__ calls start_board
Init ==
    /\ board = start_board.board
    /\ representation = start_board.representation
    /\ black_representation = start_board.black_representation
    /\ state = "none"
    /\ ret = NoReturn
    /\ pc = "start"
    /\ color = WHITE
    /\ valid_moves = <<>>
    /\ prob = 1
    /\ actionTensor = EmptyTensor
    /\ queen_promotion = {}
    /\ chess_moves = <<>>
    /\ raised = ""

\* start_board() on a game in progress
StartBoard ==
    /\ Len(board.move_stack) > 0
    /\ board' = start_board.board
    /\ representation' = start_board.representation
    /\ black_representation' = start_board.black_representation
    /\ ret' = NoReturn
    /\ UNCHANGED state
    /\ UNCHANGED codecVars

\* move_piece(move), with a legal or an illegal move
MovePiece ==
    /\ Len(board.move_stack) < MaxPly
    /\ \E move \in Repertoire :
          LET r == move_piece(Self, move)
          IN  /\ board' = r.board
              /\ representation' = r.representation
              /\ black_representation' = r.black_representation
              /\ ret' = [raised |-> r.raised, value |-> <<>>]
    /\ UNCHANGED state
    /\ UNCHANGED codecVars

\* get_representation()
GetRepresentation ==
    /\ ret' = [raised |-> "", value |-> get_representation(Self)]
    /\ UNCHANGED <<board, representation, black_representation, state>>
    /\ UNCHANGED codecVars

\* state = get_initial_state(): the caller holds self.board itself
GetInitialState ==
    /\ state = "none"
    /\ state' = "self.board"
    /\ ret' = NoReturn
    /\ UNCHANGED <<board, representation, black_representation>>
    /\ UNCHANGED codecVars

\* get_next_state(state, action) with the state get_initial_state returned
\* and an action of get_valid_moves(state)
GetNextState ==
    /\ state = "self.board"
    /\ Len(board.move_stack) < MaxSearchPly
    /\ \E action \in legal_moves(board) :
          board' = get_next_state(board, action)
    /\ ret' = NoReturn
    /\ UNCHANGED <<representation, black_representation, state>>
    /\ UNCHANGED codecVars

Next ==
    \/ StartBoard
    \/ MovePiece
    \/ GetRepresentation

Spec == Init /\ [][Next]_vars

\* the game played through move_piece and the search interface together
MovePieceSearch == Len(board.move_stack) < MaxSearchPly /\ MovePiece

NextSearch ==
    \/ MovePieceSearch
    \/ GetRepresentation
    \/ GetInitialState
    \/ GetNextState

SpecSearch == Init /\ [][NextSearch]_vars

----------------------------------------------------------------------------
(* Properties of the codec *)

\* a list of distinct moves in which no from/to pair occurs both with and
\* without a promotion, as the legal moves of one position are
LegalList(moves) ==
    \A i, j \in 1..Len(moves) :
        i # j =>
            /\ moves[i] # moves[j]
            /\ (moves[i].from_square = moves[j].from_square
                    /\ moves[i].to_square = moves[j].to_square)
                => ((moves[i].promotion = 0) <=> (moves[j].promotion = 0))

\* the place, in the ascending list of the non-zero entries, of entry index
PositionOf(t, index) == 1 + Cardinality({j \in DOMAIN t : j < index})

\* C1: decoding the mask of a legal move list with the same colour and the
\* queen-promotion set actionsToTensor returned gives back, at the index each
\* move wrote, exactly that move
C1_RoundTrip ==
    (pc = "tensorToAction" /\ LegalList(valid_moves)) =>
        /\ raised = ""
        /\ Len(chess_moves) = Len(valid_moves)
        /\ \A i \in 1..Len(valid_moves) :
               chess_moves[PositionOf(actionTensor, ActionIndex(valid_moves[i], color))]
                   = valid_moves[i]

C1_Witness ==
    /\ pc = "tensorToAction"
    /\ LegalList(valid_moves)
    /\ Len(valid_moves) = 2
    /\ \E i, j \in 1..2 : valid_moves[i].promotion = QUEEN
                          /\ valid_moves[j].promotion \in {KNIGHT, BISHOP, ROOK}
    /\ color = BLACK
    /\ {chess_moves[i] : i \in 1..Len(chess_moves)} = {valid_moves[i] : i \in 1..2}

\* a queen promotion and the non-promoting move of the same squares
Twins(a, b) ==
    /\ a.from_square = b.from_square
    /\ a.to_square = b.to_square
    /\ {a.promotion, b.promotion} = {0, QUEEN}

\* C2: the moves of a legal list are written to pairwise different indices,
\* and two different moves share an index only when they are a queen
\* promotion and the non-promoting move of the same squares
C2_Injective ==
    pc = "actionsToTensor" =>
        /\ LegalList(valid_moves) =>
               Cardinality(DOMAIN actionTensor) = Len(valid_moves)
        /\ \A i, j \in 1..Len(valid_moves) :
               (valid_moves[i] # valid_moves[j]
                   /\ ActionIndex(valid_moves[i], color) = ActionIndex(valid_moves[j], color))
               => Twins(valid_moves[i], valid_moves[j])

C2_Witness ==
    /\ pc = "actionsToTensor"
    /\ LegalList(valid_moves)
    /\ Len(valid_moves) = 2
    /\ valid_moves[1].from_square = valid_moves[2].from_square
    /\ valid_moves[1].to_square = valid_moves[2].to_square
    /\ valid_moves[1].promotion # valid_moves[2].promotion
    /\ Cardinality(DOMAIN actionTensor) = 2

\* C4: an index whose reconstructed destination lies off the board makes
\* tensorToAction fail
C4_OffBoardRejected ==
    pc = "decodeIndex" =>
        \A index \in DOMAIN actionTensor :
            (Destination(index).toRow \notin 0..7 \/ Destination(index).toCol \notin 0..7)
            => raised # ""

\* C5: when two moves of the list write to the same index, actionsToTensor
\* aborts
C5_CollisionAborts ==
    (pc = "actionsToTensor"
        /\ \E i, j \in 1..Len(valid_moves) :
               i # j /\ ActionIndex(valid_moves[i], color) = ActionIndex(valid_moves[j], color))
    => raised # ""

Compass ==
    <<<<0, -1>>, <<1, -1>>, <<1, 0>>, <<1, 1>>, <<0, 1>>, <<-1, 1>>, <<-1, 0>>, <<-1, -1>>>>
KnightOffsets ==
    <<<<1, -2>>, <<2, -1>>, <<2, 1>>, <<1, 2>>, <<-1, 2>>, <<-2, 1>>, <<-2, -1>>, <<-1, -2>>>>

\* the plane the layout assigns to the displacement (dc, dr) of the mover's
\* frame and the promotion piece
LayoutPlanes(dc, dr, promotion) ==
    IF promotion \in {KNIGHT, BISHOP, ROOK}
    THEN {64 + 3 * (promotion - KNIGHT) + (IF dc = 0 THEN 0 ELSE IF dc = 1 THEN 1 ELSE 2)}
    ELSE {56 + (k - 1) : k \in {x \in 1..8 : KnightOffsets[x] = <<dc, dr>>}}
         \cup
         {(x[1] - 1) * 7 + (x[2] - 1) :
             x \in {y \in (1..8) \X (1..7) :
                       <<dc, dr>> = <<Compass[y[1]][1] * y[2], Compass[y[1]][2] * y[2]>>}}

\* C10: actionToTensor returns a vector whose single non-zero entry, of the
\* given weight, is at plane*64 + row*8 + col with row and col the from-square
\* in the mover's frame and the plane of the 73-plane layout; white d1d6 is
\* on the vertical direction at distance 5 and black e2d1r on a plane in
\* [64, 73)
C10_IndexLayout ==
    pc = "actionToTensor" =>
        LET m     == valid_moves[1]
            row   == IF color = WHITE THEN 7 - square_rank(m.from_square)
                     ELSE square_rank(m.from_square)
            col   == IF color = WHITE THEN square_file(m.from_square)
                     ELSE 7 - square_file(m.from_square)
            toRow == IF color = WHITE THEN 7 - square_rank(m.to_square)
                     ELSE square_rank(m.to_square)
            toCol == IF color = WHITE THEN square_file(m.to_square)
                     ELSE 7 - square_file(m.to_square)
            planes == LayoutPlanes(toCol - col, toRow - row, m.promotion)
        IN  /\ Cardinality(planes) = 1
            /\ DOMAIN actionTensor = {p * 64 + row * 8 + col : p \in planes}
            /\ DOMAIN actionTensor \subseteq 0..(ACTION_SIZE - 1)
            /\ \A i \in DOMAIN actionTensor : actionTensor[i] = prob
            /\ (color = WHITE /\ m = Move(3, 43, 0)) =>
                   DOMAIN actionTensor = {(0 * 7 + 4) * 64 + 7 * 8 + 3}
            /\ (color = BLACK /\ m = Move(12, 3, ROOK)) =>
                   \A i \in DOMAIN actionTensor : (i \div 64) \in 64..72

C10_Witness ==
    /\ pc = "actionToTensor"
    /\ color = BLACK
    /\ valid_moves = <<Move(12, 3, ROOK)>>
    /\ prob = 2
    /\ actionTensor = OneHot(71 * 64 + 1 * 8 + 3, 2)

----------------------------------------------------------------------------
(* Properties of ChessTensor *)

Ply == Len(board.move_stack)

\* the board as it was after j plies
BoardAt(j) ==
    IF j = Ply THEN board
    ELSE [pieces          |-> board.stack[j + 1].pieces,
          turn            |-> board.stack[j + 1].turn,
          castling_rights |-> board.stack[j + 1].castling_rights,
          halfmove_clock  |-> board.stack[j + 1].halfmove_clock,
          move_stack      |-> SubSeq(board.move_stack, 1, j),
          stack           |-> SubSeq(board.stack, 1, j)]

\* a frame with black's piece planes first
BlackFirst(frame) == Slice(frame, 6, 12) \o Slice(frame, 0, 6) \o Slice(frame, 12, 14)

\* C3: a move_piece call with a move that is not legal raises and leaves the
\* board and both tensors as they were; the board advances only by a legal
\* move
C3_RejectedBeforeMutation ==
    [][/\ ret'.raised = "ValueError" =>
             UNCHANGED <<board, representation, black_representation>>
       /\ Len(board'.move_stack) = Len(board.move_stack) + 1 =>
             board'.move_stack[Len(board'.move_stack)] \in legal_moves(board)]_vars

C3_Witness ==
    /\ ret.raised = "ValueError"
    /\ Ply >= 2
    /\ board.turn = WHITE

\* C6: both tensors have T frames of M channels and L meta planes; frame i
\* is the frame of ply k-i for i <= min(k, T-1) and all-zero for i > k
C6_SlidingWindow ==
    /\ Len(representation) = M * T + L
    /\ Len(black_representation) = M * T + L
    /\ M * T + L = 119
    /\ \A i \in 0..(T - 1) :
          /\ Slice(representation, M * i, M * i + M)
                = (IF i <= Ply THEN current_tensor(BoardAt(Ply - i)) ELSE Zeros(M))
          /\ Slice(black_representation, M * i, M * i + M)
                = (IF i <= Ply THEN BlackFirst(current_tensor(BoardAt(Ply - i))) ELSE Zeros(M))

C6_Witness ==
    /\ Ply = T + 1
    /\ board.turn = BLACK
    /\ Slice(representation, M * (T - 1), M * T) = current_tensor(BoardAt(2))
    /\ current_tensor(BoardAt(2)) # current_tensor(BoardAt(1))

\* the squares of the pieces of one type and colour, as a plane
Occupancy(b, pt, c) ==
    [cell \in Cells |-> IF b.pieces[cell] = Piece(pt, c) THEN 1 ELSE 0]

\* a plane seen by the side to move: white reverses the ranks, black the files
Oriented(plane, me) ==
    [cell \in Cells |->
        IF me = WHITE THEN plane[(7 - square_rank(cell)) * 8 + square_file(cell)]
        ELSE plane[square_rank(cell) * 8 + (7 - square_file(cell))]]

\* C7: in the tensor get_representation returns, every played frame has the
\* planes of the side to move at channels 0-5 and the opponent's at 6-11, the
\* side plane is 1 exactly for white, the castling planes are mine-kingside,
\* mine-queenside, opponent-kingside, opponent-queenside, and the view is the
\* rank flip (white) or file flip (black) of the stored planes
C7_MineFirst ==
    ret.value # <<>> =>
        LET view == ret.value
            me   == board.turn
        IN  /\ \A i \in 0..Min(Ply, T - 1) : \A pt \in PAWN..KING :
                  /\ view[M * i + pt] = Oriented(Occupancy(BoardAt(Ply - i), pt, me), me)
                  /\ view[M * i + 6 + pt] = Oriented(Occupancy(BoardAt(Ply - i), pt, ~me), me)
            /\ view[M * T + 1] = (IF me = WHITE THEN ones ELSE zeros)
            /\ view[M * T + 3] = Flag(has_kingside_castling_rights(board, me))
            /\ view[M * T + 4] = Flag(has_queenside_castling_rights(board, me))
            /\ view[M * T + 5] = Flag(has_kingside_castling_rights(board, ~me))
            /\ view[M * T + 6] = Flag(has_queenside_castling_rights(board, ~me))
            /\ Len(view) = M * T + L
            /\ \A ch \in 1..Len(view) :
                  view[ch] = Oriented(IF me = WHITE THEN representation[ch]
                                      ELSE black_representation[ch], me)

C7_Witness ==
    /\ ret.value # <<>>
    /\ board.turn = BLACK
    /\ Ply >= 5
    /\ ~has_kingside_castling_rights(board, BLACK)
    /\ has_queenside_castling_rights(board, BLACK)
    /\ ret.value[M * T + 3] = zeros
    /\ ret.value[M * T + 4] = ones

\* C8: every cell of the ply-count plane holds the ply count and every cell
\* of the no-progress plane the half-move clock, in both tensors
C8_CounterPlanes ==
    \A cell \in Cells :
        /\ representation[M * T + 2][cell] = Len(board.move_stack)
        /\ black_representation[M * T + 2][cell] = Len(board.move_stack)
        /\ representation[M * T + 7][cell] = board.halfmove_clock
        /\ black_representation[M * T + 7][cell] = board.halfmove_clock

\* C9: the newest frame of both tensors encodes the current board and
\* get_representation returns the view of the side to move on it
C9_Lockstep ==
    /\ Slice(representation, 0, M) = current_tensor(board)
    /\ Slice(black_representation, 0, M) = BlackFirst(current_tensor(board))
    /\ ret.value # <<>> =>
          \A pt \in PAWN..KING :
              ret.value[pt] = Oriented(Occupancy(board, pt, board.turn), board.turn)

====
